---- MODULE Spec2Model ----
(***************************************************************************)
(* Model of the POST /replace-logos handler of src/main.py (replace_logos). *)
(* One request is followed from its arrival to its response.  The PDF      *)
(* library (fitz) and the image library (PIL) are external: what the        *)
(* handler asks of them is modelled at the call sites, and whether a call   *)
(* raises is a nondeterministic outcome.                                    *)
(*                                                                         *)
(* Numbers are exact rationals <<numerator, denominator>> (denominator > 0, *)
(* lowest terms); Python computes the same expressions in binary floating   *)
(* point.                                                                   *)
(***************************************************************************)
EXTENDS Integers, Sequences, FiniteSets, TLC

VARIABLES
    request,          \* the three form fields of the request
    pc,               \* position of the handler
    detections_list,  \* json.loads(detections)
    replace_size,     \* <<replace_width, replace_height>> of the decoded logo
    doc,              \* "unopened" | "open" | "closed": the fitz document handle
    pages,            \* when open: page number -> [height, images]
    idx,              \* 1-based position of the loop over detections_list
    placements,       \* per detection that reached line 115: what was computed
    calls,            \* compositing calls made so far, in order
    status,           \* HTTP status of the response (0: none yet)
    body,             \* "none" | "pdf" | "detail"
    detail            \* the error response's detail: [prefix, message]

vars == <<request, pc, detections_list, replace_size, doc, pages, idx,
          placements, calls, status, body, detail>>

(* Bounds of the model. *)
MaxDets == 2
MaxPages == 2

(* A JSON object's optional key: <<>> when absent, <<v>> when present with number v. *)
NULL == <<>>
Some(v) == <<v>>

-----------------------------------------------------------------------------
(* Exact rational arithmetic for the handler's float expressions. *)

Abs(n) == IF n < 0 THEN -n ELSE n

RECURSIVE GCD(_, _)
GCD(a, b) == IF b = 0 THEN a ELSE GCD(b, a % b)

Rat(n, d) ==
    LET g == GCD(Abs(n), Abs(d))
        s == IF d < 0 THEN -1 ELSE 1
    IN  <<(s * n) \div g, (s * d) \div g>>

R(n) == <<n, 1>>

RatAdd(a, b) == Rat(a[1] * b[2] + b[1] * a[2], a[2] * b[2])
RatSub(a, b) == Rat(a[1] * b[2] - b[1] * a[2], a[2] * b[2])
RatMul(a, b) == Rat(a[1] * b[1], a[2] * b[2])
RatAbs(a) == <<Abs(a[1]), a[2]>>
RatLT(a, b) == a[1] * b[2] < b[1] * a[2]
RatGT(a, b) == RatLT(b, a)
RatMin(a, b) == IF RatLT(a, b) THEN a ELSE b
RatMax(a, b) == IF RatLT(a, b) THEN b ELSE a

(* The outcome of a division that raised: no rational has denominator 0. *)
ZeroDivisionError == <<0, 0>>

(* Python's a / b: raises ZeroDivisionError when b is 0. *)
RatDiv(a, b) ==
    IF a = ZeroDivisionError \/ b = ZeroDivisionError THEN ZeroDivisionError
    ELSE IF b[1] = 0 THEN ZeroDivisionError
    ELSE Rat(a[1] * b[2], a[2] * b[1])

-----------------------------------------------------------------------------
(* Geometry of one detection: lines 87-115. *)

Tenth == <<1, 10>>

(* det.get(key, default): the detection's own number when the key is present. *)
Effective(value, default) == IF value = NULL THEN R(default) ELSE R(value[1])

OriginalAspect(replace_width, replace_height) ==
    RatDiv(R(replace_width), R(replace_height))

(* Mutant of TargetAspect: the "if height > 0" guard is lost. *)
TargetAspectUnguarded(width, height, original_aspect) == RatDiv(width, height)

TargetAspect(width, height, original_aspect) ==
    IF RatGT(height, R(0)) THEN RatDiv(width, height) ELSE original_aspect

AspectDiffers(original_aspect, target_aspect) ==
    RatGT(RatAbs(RatSub(original_aspect, target_aspect)), Tenth)

(* The height after the "preserve aspect ratio" step, or ZeroDivisionError. *)
AdjustedHeight(width, height, replace_width, replace_height) ==
    LET original_aspect == OriginalAspect(replace_width, replace_height)
        target_aspect == TargetAspect(width, height, original_aspect)
    IN  IF original_aspect = ZeroDivisionError \/ target_aspect = ZeroDivisionError
        THEN ZeroDivisionError
        ELSE IF AspectDiffers(original_aspect, target_aspect)
             THEN RatDiv(width, original_aspect)
             ELSE height

(* Mutant of PlacementRect: y measured from the top edge of the page. *)
PlacementRectTopLeft(x, y, width, height, page_height) ==
    <<x, RatSub(RatSub(page_height, y), height), RatAdd(x, width), RatSub(page_height, y)>>

(* fitz.Rect(x0, y0, x1, y1); page_height is read at line 96 and not used. *)
PlacementRect(x, y, width, height, page_height) ==
    <<x, y, RatAdd(x, width), RatAdd(y, height)>>

(* fitz: a rectangle is empty when x0 >= x1 or y0 >= y1. *)
IsEmptyRect(r) == ~(RatLT(r[1], r[3]) /\ RatLT(r[2], r[4]))

(* fitz Rect.intersects: false for an empty operand, else the common part is not empty. *)
Intersects(a, b) ==
    /\ ~IsEmptyRect(a)
    /\ ~IsEmptyRect(b)
    /\ ~IsEmptyRect(<<RatMax(a[1], b[1]), RatMax(a[2], b[2]),
                      RatMin(a[3], b[3]), RatMin(a[4], b[4])>>)

(* Where insert_image(rect, keep_proportion=True) puts a replace_width x      *)
(* replace_height image: scaled to fit within rect, centred. rect not empty. *)
InsertedBBox(rect, replace_width, replace_height) ==
    LET rw == RatSub(rect[3], rect[1])
        rh == RatSub(rect[4], rect[2])
        scale == RatMin(RatDiv(rw, R(replace_width)), RatDiv(rh, R(replace_height)))
        w == RatMul(R(replace_width), scale)
        h == RatMul(R(replace_height), scale)
        cx2 == RatAdd(rect[1], rect[3])
        cy2 == RatAdd(rect[2], rect[4])
        half == <<1, 2>>
    IN  <<RatMul(RatSub(cx2, w), half), RatMul(RatSub(cy2, h), half),
          RatMul(RatAdd(cx2, w), half), RatMul(RatAdd(cy2, h), half)>>

(* doc[page_num]: fitz refuses page_num >= page_count (IndexError, here 0) and *)
(* counts a negative page_num backwards from the end. The result is the       *)
(* 1-based number of the page loaded.                                         *)
LoadPage(page_num, page_count) ==
    IF page_num >= page_count THEN 0 ELSE (page_num % page_count) + 1

-----------------------------------------------------------------------------
(* The requests considered. *)

Det(p, x, y, w, h) == [page |-> p, x |-> x, y |-> y, width |-> w, height |-> h]

(* Detections over every kind of page value, with and without required keys. *)
PageValues == (-1)..(MaxPages + 1)
ListDets ==
    {Det(Some(p), Some(10), Some(20), Some(50), Some(50)) : p \in PageValues}
    \cup {Det(Some(p), Some(100), Some(100), Some(50), Some(50)) : p \in 1..MaxPages}
    \cup {Det(Some(1), NULL, Some(20), Some(50), Some(50)),
          Det(Some(1), Some(10), NULL, Some(50), Some(50)),
          Det(NULL, Some(10), Some(20), Some(50), Some(50)),
          Det(Some(1), Some(10), Some(20), Some(50), Some(0)),
          Det(Some(1), Some(10), Some(20), NULL, NULL)}

(* Single detections over a grid of sizes, for the geometry. *)
Widths == {NULL, Some(-10), Some(0), Some(50), Some(100)}
Heights == {NULL, Some(-5), Some(0), Some(20), Some(48), Some(50)}
SizeDets == {Det(Some(1), Some(10), Some(20), w, h) : w \in Widths, h \in Heights}

RECURSIVE SeqsUpTo(_, _)
SeqsUpTo(S, n) ==
    IF n = 0 THEN {<<>>}
    ELSE LET shorter == SeqsUpTo(S, n - 1)
         IN  shorter \cup {Append(q, e) : q \in {t \in shorter : Len(t) = n - 1}, e \in S}

DetectionsFields ==
    {[kind |-> "malformed", items |-> <<>>], [kind |-> "scalar", items |-> <<>>]}
    \cup {[kind |-> "array", items |-> q] :
            q \in SeqsUpTo(ListDets, MaxDets) \cup {<<d>> : d \in SizeDets}}

NativeSizes == {<<50, 50>>, <<100, 50>>}
LogoFields ==
    {[kind |-> "empty", size |-> <<0, 0>>], [kind |-> "undecodable", size |-> <<0, 0>>]}
    \cup {[kind |-> "image", size |-> n] : n \in NativeSizes}

Xref == [original |-> 11, inserted |-> 12]

OriginalImage ==
    [xref |-> Xref.original, bbox |-> <<R(0), R(0), R(40), R(40)>>, content |-> "original"]

(* A document of n pages, 200 wide, each page taller than the one before; with *)
(* withImage the same embedded image is shown on every page.                  *)
MakePages(n, withImage) ==
    [p \in 1..n |-> [height |-> 300 + 100 * (p - 1),
                     images |-> IF withImage THEN <<OriginalImage>> ELSE <<>>]]

PdfFields ==
    {[kind |-> "empty", pages |-> <<>>], [kind |-> "undecodable", pages |-> <<>>]}
    \cup {[kind |-> "pdf", pages |-> MakePages(n, i)] : n \in 1..MaxPages, i \in BOOLEAN}

NoDetail == [prefix |-> "", message |-> ""]

Init ==
    /\ request \in [pdf_file : PdfFields, detections : DetectionsFields,
                    replace_logo : LogoFields]
    /\ pc = "parse"
    /\ detections_list = <<>>
    /\ replace_size = <<0, 0>>
    /\ doc = "unopened"
    /\ pages = <<>>
    /\ idx = 0
    /\ placements = <<>>
    /\ calls = <<>>
    /\ status = 0
    /\ body = "none"
    /\ detail = NoDetail

-----------------------------------------------------------------------------
(* The two except clauses, lines 190-194: the response to a raised exception. *)

(* Mutant of StatusOf: every exception is answered 500. *)
StatusOfAlways500(exception) == 500

StatusOf(exception) == IF exception = "JSONDecodeError" THEN 400 ELSE 500

DetailOf(exception) ==
    IF exception = "JSONDecodeError"
    THEN [prefix |-> "Invalid detections JSON: ", message |-> exception]
    ELSE [prefix |-> "", message |-> exception]

Raise(exception) ==
    /\ status' = StatusOf(exception)
    /\ body' = "detail"
    /\ detail' = DetailOf(exception)
    /\ pc' = "done"

-----------------------------------------------------------------------------
(* Lines 64-65: json.loads(detections), len(detections_list). *)
ParseDetections ==
    /\ pc = "parse"
    /\ IF request.detections.kind = "malformed"
       THEN Raise("JSONDecodeError") /\ UNCHANGED detections_list
       ELSE IF request.detections.kind = "scalar"
       THEN Raise("TypeError") /\ UNCHANGED detections_list
       ELSE /\ detections_list' = request.detections.items
            /\ pc' = "decode"
            /\ UNCHANGED <<status, body, detail>>
    /\ UNCHANGED <<request, replace_size, doc, pages, idx, placements, calls>>

(* Lines 68-75: base64.b64decode, Image.open, replace_img.size. Stripping a  *)
(* "data:image/...;base64," prefix leaves the same bytes to decode.          *)
DecodeLogo ==
    /\ pc = "decode"
    /\ IF request.replace_logo.kind = "undecodable"
       THEN Raise("binascii.Error") /\ UNCHANGED replace_size
       ELSE IF request.replace_logo.kind = "empty"
       THEN Raise("UnidentifiedImageError") /\ UNCHANGED replace_size
       ELSE /\ replace_size' = request.replace_logo.size
            /\ pc' = "open"
            /\ UNCHANGED <<status, body, detail>>
    /\ UNCHANGED <<request, detections_list, doc, pages, idx, placements, calls>>

(* Lines 78-80: pdf_file.read(), fitz.open(stream=pdf_bytes, filetype="pdf"). *)
OpenDocument ==
    /\ pc = "open"
    /\ IF request.pdf_file.kind # "pdf"
       THEN Raise("FileDataError") /\ UNCHANGED <<doc, pages, idx>>
       ELSE /\ doc' = "open"
            /\ pages' = request.pdf_file.pages
            /\ idx' = 1
            /\ pc' = "loop"
            /\ UNCHANGED <<status, body, detail>>
    /\ UNCHANGED <<request, detections_list, replace_size, placements, calls>>

-----------------------------------------------------------------------------
(* Lines 121-168: the compositing of one rectangle on one page. *)

(* What the library may do in one iteration: the try block runs through,     *)
(* raises while listing the images ("scan"), or raises in the compositing    *)
(* call ("call"); fallback tells whether the fallback insert_image succeeds. *)
LibOutcomes ==
    {[try |-> "ok", fallback |-> TRUE]}
    \cup {[try |-> t, fallback |-> f] : t \in {"scan", "call"}, f \in BOOLEAN}

(* insert_image refuses an empty rectangle (ValueError). *)
InsertSucceeds(rect, libOk) == libOk /\ ~IsEmptyRect(rect)

(* Mutant of FirstIntersecting: the images of the page are never looked at. *)
FirstIntersectingNone(images, rect) == 0

(* Lines 128-144: the first image of the page whose bbox intersects rect, or 0. *)
FirstIntersecting(images, rect) ==
    LET hits == {i \in 1..Len(images) : Intersects(images[i].bbox, rect)}
    IN  IF hits = {} THEN 0 ELSE CHOOSE i \in hits : \A j \in hits : i <= j

(* One call of a compositing primitive: for detection det, on page pno; rect  *)
(* is the rectangle handed over (<<>>: none); fallback: the call of line 160. *)
Call(det, op, pno, xref, rect, ok, fallback) ==
    [det |-> det, op |-> op, page |-> pno, xref |-> xref, rect |-> rect, ok |-> ok,
     fallback |-> fallback]

(* page.replace_image(xref=..., stream=...): the image object is rewritten, *)
(* so every page that shows it shows the logo; no bbox changes.            *)
ReplaceImage(pgs, xref) ==
    [p \in DOMAIN pgs |->
        [pgs[p] EXCEPT !.images =
            [i \in DOMAIN pgs[p].images |->
                IF pgs[p].images[i].xref = xref
                THEN [pgs[p].images[i] EXCEPT !.content = "logo"]
                ELSE pgs[p].images[i]]]]

(* page.insert_image(rect, stream=..., keep_proportion=True). *)
InsertImage(pgs, pno, rect, size) ==
    [pgs EXCEPT ![pno].images =
        Append(@, [xref |-> Xref.inserted,
                   bbox |-> InsertedBBox(rect, size[1], size[2]),
                   content |-> "logo"])]

(* The calls one iteration makes, in order, for library outcome out. *)
CallsOf(det, pno, images, rect, out) ==
    LET hit == FirstIntersecting(images, rect)
        first ==
            IF out.try = "scan" THEN <<>>
            ELSE IF hit # 0
            THEN <<Call(det, "replace_image", pno, images[hit].xref, <<>>,
                        out.try = "ok", FALSE)>>
            ELSE <<Call(det, "insert_image", pno, 0, rect,
                        InsertSucceeds(rect, out.try = "ok"), FALSE)>>
        tryOk == first # <<>> /\ first[1].ok
    IN  IF tryOk THEN first
        ELSE Append(first, Call(det, "insert_image", pno, 0, rect,
                                InsertSucceeds(rect, out.fallback), TRUE))

(* Mutant of IterationSucceeded: a failed fallback is not raised again. *)
IterationSucceededAlways(cs) == TRUE

(* Lines 156-168: the iteration goes on unless the fallback insert raised too. *)
IterationSucceeded(cs) == cs[Len(cs)].ok

(* The pages after the calls cs. *)
RECURSIVE Apply(_, _, _)
Apply(pgs, cs, size) ==
    IF cs = <<>> THEN pgs
    ELSE LET c == Head(cs)
             after == IF ~c.ok THEN pgs
                      ELSE IF c.op = "replace_image" THEN ReplaceImage(pgs, c.xref)
                      ELSE InsertImage(pgs, c.page, c.rect, size)
         IN  Apply(after, Tail(cs), size)

(* Lines 83-168: one iteration of the loop over detections_list. *)
ProcessDetection ==
    /\ pc = "loop"
    /\ idx <= Len(detections_list)
    /\ LET det == detections_list[idx]
       IN  IF det.page = NULL \/ det.x = NULL \/ det.y = NULL
           THEN Raise("KeyError") /\ UNCHANGED <<pages, idx, placements, calls>>
           ELSE
           LET page_num == det.page[1] - 1
               x == R(det.x[1])
               y == R(det.y[1])
               width == Effective(det.width, replace_size[1])
               height0 == Effective(det.height, replace_size[2])
               pno == LoadPage(page_num, Len(pages))
           IN  IF pno = 0
               THEN Raise("IndexError") /\ UNCHANGED <<pages, idx, placements, calls>>
               ELSE
               LET page_height == R(pages[pno].height)
                   height == AdjustedHeight(width, height0, replace_size[1], replace_size[2])
               IN  IF height = ZeroDivisionError
                   THEN Raise("ZeroDivisionError")
                        /\ UNCHANGED <<pages, idx, placements, calls>>
                   ELSE
                   LET rect == PlacementRect(x, y, width, height, page_height)
                   IN  \E out \in LibOutcomes :
                         LET cs == CallsOf(idx, pno, pages[pno].images, rect, out)
                         IN  /\ placements' = Append(placements,
                                    [det |-> idx, page |-> pno, width |-> width,
                                     height |-> height, rect |-> rect])
                             /\ calls' = calls \o cs
                             /\ pages' = Apply(pages, cs, replace_size)
                             /\ IF IterationSucceeded(cs)
                                THEN /\ idx' = idx + 1
                                     /\ UNCHANGED <<pc, status, body, detail>>
                                ELSE Raise("fitz error") /\ UNCHANGED idx
    /\ UNCHANGED <<request, detections_list, replace_size, doc>>

(* Lines 171-188: doc.tobytes(...), doc.close(), the Response. *)
SaveDocument ==
    /\ pc = "loop"
    /\ idx > Len(detections_list)
    /\ \E saved \in BOOLEAN :
         IF saved
         THEN /\ doc' = "closed"
              /\ status' = 200
              /\ body' = "pdf"
              /\ pc' = "done"
              /\ UNCHANGED detail
         ELSE Raise("fitz error") /\ UNCHANGED doc
    /\ UNCHANGED <<request, detections_list, replace_size, pages, idx, placements, calls>>

Next ==
    \/ ParseDetections
    \/ DecodeLogo
    \/ OpenDocument
    \/ ProcessDetection
    \/ SaveDocument

Spec == Init /\ [][Next]_vars

-----------------------------------------------------------------------------
(* Vocabulary of the properties. *)

Done == pc = "done"
PageCount == Len(pages)
CallSet == {calls[k] : k \in DOMAIN calls}
PlacementSet == {placements[k] : k \in DOMAIN placements}
CallsFor(i) == {c \in CallSet : c.det = i}
Composited(i) == \E c \in CallsFor(i) : c.ok
PlacementOf(i) == CHOOSE pl \in PlacementSet : pl.det = i
OriginalImages(pno) == request.pdf_file.pages[pno].images
PositiveSize(r) == RatLT(r[1], r[3]) /\ RatLT(r[2], r[4])
(* The loop stopped at position i: the handler raised while processing it. *)
StoppedAt(i) == Done /\ doc = "open" /\ idx = i /\ i \in DOMAIN detections_list
(* The images of c's page in the original document that c's rectangle meets. *)
AloneHits(c) ==
    {k \in DOMAIN OriginalImages(c.page) :
        Intersects(OriginalImages(c.page)[k].bbox, PlacementOf(c.det).rect)}
(* c is the call its detection makes when processed alone on the original    *)
(* document: replace the first image met, or insert over the rectangle.      *)
AsAlone(c) ==
    IF AloneHits(c) = {}
    THEN c.op = "insert_image" /\ c.rect = PlacementOf(c.det).rect
    ELSE /\ c.op = "replace_image"
         /\ \E k \in AloneHits(c) :
               /\ \A j \in AloneHits(c) : k <= j
               /\ c.xref = OriginalImages(c.page)[k].xref
(* Equal detections of one list get equal placements. *)
SameRectForSameDetection ==
    \A p1, p2 \in PlacementSet :
        detections_list[p1.det] = detections_list[p2.det] =>
            /\ p1.rect = p2.rect
            /\ p1.width = p2.width
            /\ p1.height = p2.height

-----------------------------------------------------------------------------
(* C1: a request whose detections string is not well-formed JSON is answered *)
(* 400 with a detail that begins "Invalid detections JSON: ", whatever the   *)
(* other two fields hold, and before that no document is opened and no       *)
(* compositing call is made.                                                 *)
C1_MalformedJsonIs400 ==
    request.detections.kind = "malformed" =>
        /\ doc = "unopened"
        /\ calls = <<>>
        /\ pc \in {"parse", "done"}
        /\ Done => /\ status = 400
                   /\ body = "detail"
                   /\ detail.prefix = "Invalid detections JSON: "

C1_Witness ==
    /\ Done
    /\ request.detections.kind = "malformed"
    /\ request.pdf_file.kind = "pdf"
    /\ request.replace_logo.kind = "undecodable"
    /\ status = 400

(* C2: a detection reached by the loop whose page is outside [1, pageCount]  *)
(* (0 and negative values included) ends the request with status 500 and no  *)
(* PDF, and nothing is composited for it.                                    *)
C2_PageOutsideRangeIs500 ==
    \A i \in DOMAIN detections_list :
        (/\ doc # "unopened"
         /\ detections_list[i].page # NULL
         /\ detections_list[i].page[1] \notin 1..PageCount)
        => /\ CallsFor(i) = {}
           /\ (Done /\ idx >= i) => (status = 500 /\ body # "pdf")

(* C3: a request that stops at a detection lacking the required key x or y   *)
(* is answered with status 400.                                              *)
C3_MissingFieldIs400 ==
    \A i \in DOMAIN detections_list :
        (/\ StoppedAt(i)
         /\ detections_list[i].page # NULL
         /\ (detections_list[i].x = NULL \/ detections_list[i].y = NULL))
        => status = 400

(* C4: no partial success. A 200 response with PDF bytes is given only when  *)
(* every detection of the list was composited; when the detection at         *)
(* position k fails the response is an error without a PDF, also when        *)
(* earlier detections were composited, and no detection after k is processed.*)
C4_NoPartialSuccess ==
    /\ (status = 200 \/ body = "pdf") =>
          /\ Done /\ status = 200 /\ body = "pdf"
          /\ \A i \in DOMAIN detections_list : Composited(i)
    /\ \A k \in DOMAIN detections_list :
          (doc = "open" /\ idx = k) =>
              /\ \A c \in CallSet : c.det <= k
              /\ \A pl \in PlacementSet : pl.det <= k
              /\ \A i \in 1..(k - 1) : Composited(i)
              /\ Done => (status \in {400, 500} /\ body = "detail")

C4_Witness ==
    /\ StoppedAt(2)
    /\ Composited(1)
    /\ ~Composited(2)
    /\ pages # request.pdf_file.pages
    /\ status = 500

(* C5: on every exit path on which the document was opened, the error paths  *)
(* included, the document has been closed when the response is returned.     *)
C5_ClosedOnEveryExit == Done => doc # "open"

(* C6: for every successfully processed detection the rectangle handed to    *)
(* the compositing primitive is the computed placement rectangle, on the     *)
(* detection's page, whether or not images of the page intersect it.         *)
C6_ComputedRectHanded ==
    \A pl \in PlacementSet :
        Composited(pl.det) =>
            \E c \in CallsFor(pl.det) : c.ok /\ c.page = pl.page /\ c.rect = pl.rect

(* C6 as amended: a successful insert_image is handed the computed rectangle *)
(* on the page loaded for the detection, and outside the fallback it is made *)
(* only when no image of the page intersects the rectangle; when one does,   *)
(* the first such image is replaced through its xref and no rectangle is     *)
(* handed over.                                                              *)
C6_InsertOrReplace ==
    \A c \in CallSet :
        LET pl == PlacementOf(c.det)
        IN  /\ c.page = pl.page
            /\ c.op = "insert_image" =>
                  /\ c.rect = pl.rect
                  /\ ~c.fallback =>
                        \A k \in DOMAIN OriginalImages(c.page) :
                            ~Intersects(OriginalImages(c.page)[k].bbox, pl.rect)
            /\ c.op = "replace_image" =>
                  /\ c.rect = <<>>
                  /\ ~c.fallback
                  /\ \E k \in DOMAIN pages[c.page].images :
                        /\ pages[c.page].images[k].xref = c.xref
                        /\ Intersects(pages[c.page].images[k].bbox, pl.rect)

C6_Witness ==
    /\ Done /\ status = 200
    /\ \E c \in CallSet : c.ok /\ c.op = "replace_image" /\ c.xref = Xref.original
    /\ \E c \in CallSet : c.ok /\ c.op = "insert_image" /\ ~c.fallback

(* C7: under the bottom-left convention the placement rectangle of a         *)
(* detection (x, y, width, height) is x0 = x, y0 = y, x1 = x + width,        *)
(* y1 = y + h' with h' the (possibly adjusted) height, whatever the page's   *)
(* height is; a 50x50 image and {x:10, y:20, width:50, height:50} on a       *)
(* 200x300 page give (10, 20, 60, 70).                                       *)
C7_BottomLeftRect ==
    \A pl \in PlacementSet :
        LET det == detections_list[pl.det]
            r == pl.rect
        IN  /\ r[1] = R(det.x[1])
            /\ r[2] = R(det.y[1])
            /\ r[3] = RatAdd(R(det.x[1]), pl.width)
            /\ r[4] = RatAdd(R(det.y[1]), pl.height)
            /\ RatSub(r[4], r[2]) = pl.height
            /\ \A c \in CallsFor(pl.det) : c.op = "insert_image" => c.rect = r
            /\ (/\ det.x = Some(10) /\ det.y = Some(20)
                /\ det.width = Some(50) /\ det.height = Some(50)
                /\ replace_size = <<50, 50>>)
               => r = <<R(10), R(20), R(60), R(70)>>

C7_Witness ==
    \E pl \in PlacementSet :
        /\ pl.page = 2
        /\ pages[pl.page].height = 400
        /\ pl.height # R(detections_list[pl.det].height[1])
        /\ RatSub(pl.rect[4], pl.rect[2]) = pl.height
        /\ \E c \in CallsFor(pl.det) : c.ok /\ c.op = "insert_image"

(* C8: the aspect policy. With absent width/height replaced by the native    *)
(* size: width is never changed; height becomes width / (nativeWidth /       *)
(* nativeHeight) exactly when height > 0 and |nativeWidth/nativeHeight -     *)
(* width/height| > 0.1; otherwise, height <= 0 included, height is passed    *)
(* through and no division error is raised. Native 100x50 with width 100,    *)
(* height 20 gives height 50.                                                *)
C8_AspectPolicy ==
    /\ detail.message # "ZeroDivisionError"
    /\ \A pl \in PlacementSet :
        LET det == detections_list[pl.det]
            nw == replace_size[1]
            nh == replace_size[2]
            w == IF det.width = NULL THEN nw ELSE det.width[1]
            h == IF det.height = NULL THEN nh ELSE det.height[1]
            \* |nw/nh - w/h| > 1/10, for nh > 0 and h > 0, without a division
            differs == 10 * Abs(nw * h - w * nh) > nh * h
        IN  /\ pl.width = R(w)
            /\ IF h > 0 /\ differs
               THEN pl.height[1] * nw = w * nh * pl.height[2]   \* height = w / (nw/nh)
               ELSE pl.height = R(h)
            /\ (nw = 100 /\ nh = 50 /\ w = 100 /\ h = 20) => pl.height = R(50)

C8_Witness ==
    \E pl \in PlacementSet :
        /\ replace_size = <<100, 50>>
        /\ detections_list[pl.det].width = Some(100)
        /\ detections_list[pl.det].height = Some(20)
        /\ pl.width = R(100)
        /\ pl.height = R(50)

(* C9: every placement rectangle handed to the compositing primitive has     *)
(* strictly positive width and height, also for detections whose supplied    *)
(* width or height is zero or negative.                                      *)
C9_PositiveRect ==
    \A c \in CallSet : c.op = "insert_image" => PositiveSize(c.rect)

(* C10: detections are independent: the placement rectangle of detection i   *)
(* and the compositing action taken for it (operation, target, rectangle)    *)
(* are those of detection i processed alone on the original document,        *)
(* whatever was processed before it.                                         *)
C10_Independent ==
    /\ SameRectForSameDetection
    /\ \A c \in CallSet : ~c.fallback => AsAlone(c)

====
